---- MODULE Spec2Model ----
(***************************************************************************)
(* The patient-concierge turn (src/src/api/chat.py), the conversation      *)
(* store operations it calls (src/src/core/state_manager.py), the response *)
(* generator wrapper (src/src/core/agent.py) and the lead delivery         *)
(* (src/src/services/webhook_routing_service.py), as a state machine.      *)
(*                                                                         *)
(* A turn is a sequence of steps, one per store operation or external      *)
(* call, held in turn[p]; the tables are the global variables.             *)
(*                                                                         *)
(* The tables have the columns of the migrations (alembic 0001 and 0003):  *)
(* conversations and chat_logs carry agent_type, which state_manager.py    *)
(* passes to Conversation(...) and ChatLog(...).  models.py declares no    *)
(* agent_type attribute on either class, so with that file as it stands    *)
(* both constructors raise TypeError; the model takes the migrated schema, *)
(* under which they build the row.                                         *)
(***************************************************************************)
EXTENDS Integers, Sequences, FiniteSets, TLC

(***************************************************************************)
(* Bounds                                                                  *)
(***************************************************************************)
\* turns started over a whole run
MaxTurns == 3
\* direct calls of state_manager operations over a whole run (SpecApi)
MaxApiCalls == 2
\* turns started over a whole run of requests in progress at the same time
MaxConcurrentTurns == 2

\* the requests that can be in progress at once; a specification of turns
\* served one at a time runs them all as p1
Procs == {"p1", "p2"}
ConvIds == {"c1", "c2"}
\* requests may name a tenant that is not in the clients table
TenantIds == {"t1", "t2", "t9"}
UserMessages == {"hello"}
ClinicalMessages == {"xray"}
Values == {"v1", "v2"}

(***************************************************************************)
(* Values                                                                  *)
(***************************************************************************)
\* Python None, and a key that a dict does not hold
Null == "null"
Absent == "absent"
\* NULL in a DateTime column; the clock starts above it
NullTime == 0

Stages == {"GREETING", "BOOKING_APPOINTMENT", "ANSWERING_QUESTION", "CLOSING"}
\* what the generator puts in next_stage in the runs checked: a stage to
\* move to, or the "" default
NextStageValues == (Stages \ {"GREETING"}) \cup {""}

\* the keys load_or_create_conversation initialises to None (a bounded part
\* of the eight), and a key only an extraction can add
KnownFields == {"name"}
Keys == KnownFields \cup {"notes"}

\* a dict over Keys: key -> value, None, or not in the dict
Dicts == [Keys -> Values \cup {Null, Absent}]
EmptyDict == [k \in Keys |-> Absent]

\* the clients table: client_id -> lead_webhook_url (t9 has no row)
Clients == {"t1", "t2"}
lead_webhook_url == [t \in Clients |-> IF t = "t1" THEN "https://crm.t1/hook" ELSE Null]

\* limit default of get_conversation_history
HistoryLimit == 10

FallbackText == "I'm sorry, I'm having a little trouble right now. Could you please rephrase that?"
DefaultText == "I'm sorry, I had trouble processing that."

NoRow == [exists |-> FALSE]

VARIABLES
    conversations,      \* conversations table: conversation_id -> row or NoRow
    chat_logs,          \* chat_logs table, in insertion order
    webhook_attempts,   \* webhook_attempts table
    webhook_successes,  \* webhook_successes table
    webhook_failures,   \* webhook_failures table
    posts,              \* HTTP POSTs attempted, in order
    clock,              \* datetime.utcnow(), advancing at each read
    turn,               \* per request: position and locals of handle_chat_message
    turns,              \* turns started
    api,                \* the last direct state_manager call and its result
    api_calls,          \* direct calls made
    closing_run,        \* per conversation: whether its stage is in a run of
                        \* CLOSING, and the route_via_webhook calls since the
                        \* run began
    tally,              \* per conversation: turns completed, and turns ended
                        \* by an error after their user message was logged
    practice_profiles,  \* practice_profiles table: practice_id -> profile_json
    clinical,           \* position and locals of one clinical_chat request
    wait                \* position and locals of one wait_for_db call

vars == <<conversations, chat_logs, webhook_attempts, webhook_successes,
          webhook_failures, posts, clock, turn, turns, api, api_calls, closing_run,
          tally, practice_profiles, clinical, wait>>

tables == <<conversations, chat_logs, webhook_attempts, webhook_successes,
            webhook_failures>>
audit == <<webhook_attempts, webhook_successes, webhook_failures>>

(***************************************************************************)
(* Pure helpers                                                            *)
(***************************************************************************)
Min(a, b) == IF a < b THEN a ELSE b

KeepOrder(s) == s

Reverse(s) == [i \in 1..Len(s) |-> s[Len(s) + 1 - i]]

\* dict.get(key): None for a missing key
Get(d, k) == IF d[k] = Absent THEN Null ELSE d[k]

\* chat.py:70-71  current_state.update({k: v for k, v in updated_details.items() if v is not None})
MergeKeepsNone(state, updated_details) ==
    [k \in Keys |-> IF updated_details[k] # Absent THEN updated_details[k] ELSE state[k]]

Merge(state, updated_details) ==
    [k \in Keys |-> IF updated_details[k] \notin {Absent, Null}
                    THEN updated_details[k] ELSE state[k]]

\* chat.py:73  agent_output.get("next_stage") or conversation.current_stage
NextStageAsGiven(agent_output, current_stage) == agent_output.next_stage

NextStage(agent_output, current_stage) ==
    IF agent_output.next_stage \in {"", Null, Absent}
    THEN current_stage ELSE agent_output.next_stage

\* chat.py:67  agent_output.get("response_text", "I'm sorry, I had trouble processing that.")
ResponseText(agent_output) ==
    IF agent_output.response_text = Absent THEN DefaultText ELSE agent_output.response_text

\* agent.py:160-167  the dict returned when the chain raises
FallbackRestarts(stage) ==
    [response_text |-> FallbackText, updated_details |-> EmptyDict, next_stage |-> "GREETING"]

FallbackOutput(stage) ==
    [response_text |-> FallbackText, updated_details |-> EmptyDict, next_stage |-> stage]

\* state_manager.py:52-67  the row of a new conversation
NewConversation(client_id, agent_type) ==
    [exists |-> TRUE, client_id |-> client_id, current_stage |-> "GREETING",
     conversation_state |-> [k \in Keys |-> IF k \in KnownFields THEN Null ELSE Absent],
     agent_type |-> agent_type, is_finalized |-> FALSE, finalized_at |-> NullTime]

\* state_manager.py:135-140  the row log_message inserts
LogRowFromBot(conversation_id, sender, message, agent_type) ==
    [conversation_id |-> conversation_id, sender_type |-> "bot", message |-> message,
     agent_type |-> agent_type]

LogRowForFirst(conversation_id, sender, message, agent_type) ==
    [conversation_id |-> "c1", sender_type |-> sender, message |-> message,
     agent_type |-> agent_type]

LogRow(conversation_id, sender, message, agent_type) ==
    [conversation_id |-> conversation_id, sender_type |-> sender, message |-> message,
     agent_type |-> agent_type]

\* state_manager.py:107-122  get_conversation_history; agent_type Null is the
\* default None.  chat_logs is kept in created_at order (a row's position is
\* its created_at), so the newest `limit` rows are the head of the reversed
\* selection.
get_oldest_history(logs, conversation_id, limit, agent_type) ==
    LET sel == SelectSeq(logs, LAMBDA r :
                   /\ r.conversation_id = conversation_id
                   /\ (agent_type = Null \/ r.agent_type = agent_type))
        rows == SubSeq(sel, 1, Min(limit, Len(sel)))
    IN  [i \in 1..Len(rows) |->
            [type |-> IF rows[i].sender_type = "user" THEN "human" ELSE "ai",
             content |-> rows[i].message]]

get_conversation_history(logs, conversation_id, limit, agent_type) ==
    LET sel == SelectSeq(logs, LAMBDA r :
                   /\ r.conversation_id = conversation_id
                   /\ (agent_type = Null \/ r.agent_type = agent_type))
        desc == Reverse(sel)
        rows == Reverse(SubSeq(desc, 1, Min(limit, Len(desc))))
    IN  [i \in 1..Len(rows) |->
            [type |-> IF rows[i].sender_type = "user" THEN "human" ELSE "ai",
             content |-> rows[i].message]]

\* webhook_routing_service.py:23-31
Payload(client_id, conversation_id, lead_details, now) ==
    [client_id |-> client_id, conversation_id |-> conversation_id, timestamp |-> now,
     name |-> Get(lead_details, "name"), lead_data |-> lead_details]

(***************************************************************************)
(* The locals of one turn                                                  *)
(***************************************************************************)
NoOutput == [response_text |-> Absent, updated_details |-> EmptyDict, next_stage |-> Absent]
NoPayload == Payload("", "", EmptyDict, NullTime)

IdleTurn ==
    [pc |-> "idle", conversation_id |-> "", client_id |-> "", message |-> "",
     history |-> <<>>, context |-> "",
     stage |-> "", state |-> EmptyDict,           \* the loaded conversation object
     expired |-> TRUE,                             \* its attributes reload on next use
     agent_output |-> NoOutput, response_text |-> "",
     current_state |-> EmptyDict, next_stage |-> "", previous_stage |-> "",
     stage_pending |-> FALSE,                      \* chat.py:77, not yet flushed
     finalizable |-> FALSE,                        \* state_manager.py:34, as queried
     finalize_result |-> "not called",
     lead_details |-> EmptyDict, payload |-> NoPayload, url |-> "",
     reply |-> "",
     \* what happened in the turn
     logs_before |-> 0,                            \* rows logged when the turn began
     start_stage |-> "", state_before |-> EmptyDict, extracted |-> {},
     started_finalized |-> FALSE, retriever_called |-> FALSE, retriever_fault |-> FALSE,
     generator_fault |-> FALSE, store_fault |-> FALSE, fault_step |-> "none",
     route_calls |-> 0, post_calls |-> 0, post_outcome |-> "none"]

InFlight(p) == turn[p].pc \notin {"idle", "done", "failed"}

\* models.py:72-84  practice_profiles: one row per practice at most;
\* profile_json defaults to {} (the empty dict).  t1 has a profile, and no
\* row is stored for any other tenant.
EmptyProfile == "{}"
NoProfile == [exists |-> FALSE, profile_json |-> EmptyProfile]
SeededProfiles ==
    [t \in TenantIds |->
        IF t = "t1" THEN [exists |-> TRUE, profile_json |-> "{practice_name: Clinic One}"]
        ELSE NoProfile]

\* state_manager.py:164-173  get_practice_profile: profile_json, or None
get_practice_profile(profiles, client_id) ==
    IF profiles[client_id].exists THEN profiles[client_id].profile_json ELSE Null

\* clinical.py:128-217  the locals of clinical_chat
IdleClinical ==
    [pc |-> "idle", client_id |-> "", message |-> "", profile |-> Null,
     context |-> "", status |-> 0, reply |-> "", generator_fault |-> FALSE,
     served |-> 0]

\* db.py:23-51  the locals of wait_for_db, the failures the engine still has
\* in store, and what the call has done so far
NotWaiting ==
    [pc |-> "idle", retries |-> 0, fails_before_success |-> 0, fails_always |-> FALSE,
     attempt |-> 0,
     connects |-> 0, failed_connects |-> 0, sleeps |-> 0, result |-> "none"]

\* no delivery recorded, no request in flight, nothing called yet
NothingRun ==
    /\ webhook_attempts = <<>>
    /\ webhook_successes = <<>>
    /\ webhook_failures = <<>>
    /\ posts = <<>>
    /\ clock = 1
    /\ turn = [p \in Procs |-> IdleTurn]
    /\ turns = 0
    /\ api = [op |-> "none", conversation_id |-> "", result |-> "none"]
    /\ api_calls = 0
    /\ closing_run = [c \in ConvIds |-> [active |-> FALSE, calls |-> 0]]
    /\ tally = [c \in ConvIds |-> [completed |-> 0, aborted |-> 0]]
    /\ practice_profiles = SeededProfiles
    /\ clinical = IdleClinical
    /\ wait = NotWaiting

Init ==
    /\ conversations = [c \in ConvIds |-> NoRow]
    /\ chat_logs = <<>>
    /\ NothingRun

\* a request that has ended: its locals are gone; what stays is what it
\* returned and what happened in it
Ended(t, pc, reply) ==
    [IdleTurn EXCEPT !.pc = pc, !.reply = reply,
                     !.conversation_id = t.conversation_id, !.client_id = t.client_id,
                     !.message = t.message,
                     !.previous_stage = t.previous_stage, !.next_stage = t.next_stage,
                     !.start_stage = t.start_stage, !.state_before = t.state_before,
                     !.extracted = t.extracted,
                     !.started_finalized = t.started_finalized,
                     !.retriever_called = t.retriever_called,
                     !.retriever_fault = t.retriever_fault,
                     !.generator_fault = t.generator_fault, !.store_fault = t.store_fault,
                     !.fault_step = t.fault_step,
                     !.finalize_result = t.finalize_result,
                     !.route_calls = t.route_calls, !.post_calls = t.post_calls,
                     !.post_outcome = t.post_outcome]

\* the exception of a store call leaves the handler: the request ends with
\* an error, at the step it was in
Raise(p) ==
    turn' = [turn EXCEPT ![p] = [Ended(turn[p], "failed", "") EXCEPT
                                    !.store_fault = TRUE, !.fault_step = turn[p].pc]]

\* a generator fault, as an outcome of the call (agent.py:160)
GeneratorFault == [response_text |-> Absent, updated_details |-> EmptyDict, next_stage |-> "fault"]

\* the outputs the generator returns in the runs checked (agent.py:150-158):
\* every way of giving, nulling or omitting "name", or adding "notes", with
\* every next_stage
UpdatedDetailsInputs ==
    {d \in Dicts : d["notes"] = Absent} \cup {[name |-> Absent, notes |-> "v1"]}
AgentOutputs ==
    [response_text : {"Sure."}, updated_details : UpdatedDetailsInputs,
     next_stage : NextStageValues]
\* a smaller set for the runs that vary something else
FewOutputs ==
    [response_text : {"Sure."},
     updated_details : {EmptyDict, [name |-> "v1", notes |-> Absent]},
     next_stage : {"", "BOOKING_APPOINTMENT", "CLOSING"}]

RetrieverOutcomes == {"snippets", "", "fault"}
PostOutcomes == {"200", "500", "RequestError", "Exception"}
FinalizeFaults == {"none", "before commit", "after commit"}

(***************************************************************************)
(* state_manager.finalize_conversation (state_manager.py:27-47) as a       *)
(* function of the table: its return value and the table it leaves.        *)
(* "before commit": the query or the commit raises; "after commit": the    *)
(* refresh or the export raises.  Both end in rollback() and False.  The   *)
(* query (line 32) and the commit (line 38) are two statements of the      *)
(* store: another request's commit can come between them.                  *)
(***************************************************************************)
\* state_manager.py:34  if conversation and not conversation.is_finalized
FinalizeAlways(convs, c) == convs[c].exists

Finalizable(convs, c) == convs[c].exists /\ ~convs[c].is_finalized

\* ok: what the guard of line 34 gave on the row the query returned
FinalizeReturn(ok, f) ==
    IF f = "before commit" THEN "False"
    ELSE IF ok
         THEN (IF f = "after commit" THEN "False" ELSE "True")
         ELSE "None"

FinalizeCommits(ok, f) == f # "before commit" /\ ok

\* state_manager.py:36-38  the row the commit writes
FinalizeEvery(convs, c, ok, f, now) ==
    IF FinalizeCommits(ok, f) /\ convs[c].exists
    THEN [d \in DOMAIN convs |->
             IF convs[d].exists
             THEN [convs[d] EXCEPT !.is_finalized = TRUE, !.finalized_at = now]
             ELSE convs[d]]
    ELSE convs

FinalizeFlagOnly(convs, c, ok, f, now) ==
    IF FinalizeCommits(ok, f) /\ convs[c].exists
    THEN [convs EXCEPT ![c].is_finalized = TRUE]
    ELSE convs

FinalizeTable(convs, c, ok, f, now) ==
    IF FinalizeCommits(ok, f) /\ convs[c].exists
    THEN [convs EXCEPT ![c].is_finalized = TRUE, ![c].finalized_at = now]
    ELSE convs

(***************************************************************************)
(* handle_chat_message, step by step                                       *)
(***************************************************************************)
\* chat.py:44-46 and state_manager.py:50.  A request without an id gets
\* uuid4(), an id no conversation has: c is then any unused id.  The query
\* finds the conversation or not.
StartTurn(p, c, t, m, f) ==
    /\ ~InFlight(p)
    /\ turns < MaxTurns
    /\ turns' = turns + 1
    /\ LET row == conversations[c]
           base == [IdleTurn EXCEPT !.conversation_id = c, !.client_id = t, !.message = m,
                                    !.logs_before = Len(chat_logs),
                                    !.started_finalized = row.exists /\ row.is_finalized,
                                    !.start_stage = IF row.exists THEN row.current_stage
                                                    ELSE "GREETING"]
       IN  turn' = [turn EXCEPT ![p] =
                      IF f THEN [base EXCEPT !.pc = "failed", !.store_fault = TRUE,
                                             !.fault_step = "start"]
                      ELSE [base EXCEPT !.pc = IF row.exists THEN "history" ELSE "create"]]
    /\ UNCHANGED <<tables, posts, clock, api, api_calls, closing_run>>

\* state_manager.py:51-70: the conversation was not found, so insert it and
\* commit.  The insert fails on a store fault, on a client_id without a
\* clients row (foreign key) and on a conversation_id that is in the table
\* by now (primary key).
CreateConversation(p, f) ==
    /\ turn[p].pc = "create"
    /\ LET c == turn[p].conversation_id
           t == turn[p].client_id
       IN  IF f \/ t \notin Clients \/ conversations[c].exists
           THEN Raise(p) /\ UNCHANGED conversations
           ELSE /\ conversations' = [conversations EXCEPT ![c] = NewConversation(t, "patient")]
                /\ turn' = [turn EXCEPT ![p].pc = "history"]
    /\ UNCHANGED <<chat_logs, audit, posts, clock, turns, api, api_calls, closing_run>>

\* chat.py:47
GetHistory(p, f) ==
    /\ turn[p].pc = "history"
    /\ IF f THEN Raise(p)
       ELSE turn' = [turn EXCEPT ![p].pc = "log_user",
                                 ![p].history = get_conversation_history(
                                     chat_logs, turn[p].conversation_id, HistoryLimit, Null)]
    /\ UNCHANGED <<tables, posts, clock, turns, api, api_calls, closing_run>>

\* state_manager.py:141-142  db.add(log_entry); db.commit(): the table after
\* the insert
ReplaceNewest(logs, row) ==
    IF logs = <<>> THEN <<row>> ELSE [logs EXCEPT ![Len(logs)] = row]

AppendLog(logs, row) == Append(logs, row)

\* chat.py:48 and state_manager.py:124-142; the commit expires the loaded
\* conversation object
LogUser(p, f) ==
    /\ turn[p].pc = "log_user"
    /\ IF f THEN Raise(p) /\ UNCHANGED chat_logs
       ELSE /\ chat_logs' = AppendLog(chat_logs, LogRow(turn[p].conversation_id, "user",
                                                        turn[p].message, "patient"))
            /\ turn' = [turn EXCEPT ![p].pc = "retrieve", ![p].expired = TRUE]
    /\ UNCHANGED <<conversations, audit, posts, clock, turns, api, api_calls, closing_run>>

\* chat.py:51  the stages in which the retriever is called
RetrievalStagesAll == Stages

RetrievalStages == {"GREETING", "ANSWERING_QUESTION"}

\* chat.py:50-52: reading conversation.current_stage reloads the expired
\* object from its row; the retriever is called in two stages only and its
\* exception is not caught
Retrieve(p, r, f) ==
    /\ turn[p].pc = "retrieve"
    /\ LET row == conversations[turn[p].conversation_id]
           called == row.current_stage \in RetrievalStages
       IN  IF f THEN Raise(p)
           ELSE IF called
           THEN LET t == [turn[p] EXCEPT !.stage = row.current_stage,
                                         !.state = row.conversation_state,
                                         !.expired = FALSE,
                                         !.retriever_called = TRUE,
                                         !.retriever_fault = r = "fault",
                                         !.state_before = row.conversation_state,
                                         !.context = r,
                                         !.pc = "agent"]
                IN  turn' = [turn EXCEPT ![p] = IF r = "fault" THEN Ended(t, "failed", "")
                                                ELSE t]
           ELSE /\ r = ""
                /\ turn' = [turn EXCEPT ![p].stage = row.current_stage,
                                        ![p].state = row.conversation_state,
                                        ![p].state_before = row.conversation_state,
                                        ![p].expired = FALSE,
                                        ![p].pc = "agent"]
    /\ UNCHANGED <<tables, posts, clock, turns, api, api_calls, closing_run>>

\* chat.py:54-74 and agent.py:139-167: the generator returns out or faults,
\* and the handler takes the reply, merges the extraction and picks the stage
Generate(p, out) ==
    /\ turn[p].pc = "agent"
    /\ LET fault == out = GeneratorFault
           agent_output == IF fault THEN FallbackOutput(turn[p].stage) ELSE out
       IN  turn' = [turn EXCEPT
                ![p].agent_output = agent_output,
                ![p].generator_fault = fault,
                ![p].extracted = {k \in Keys :
                                     agent_output.updated_details[k] \notin {Absent, Null}},
                ![p].response_text = ResponseText(agent_output),
                ![p].current_state = Merge(turn[p].state, agent_output.updated_details),
                ![p].next_stage = NextStage(agent_output, turn[p].stage),
                ![p].previous_stage = turn[p].stage,
                ![p].pc = "save"]
    /\ UNCHANGED <<tables, posts, clock, turns, api, api_calls, closing_run>>

\* state_manager.py:77-84: the UPDATE carries the columns whose new value
\* differs from the loaded one
save_state(convs, c, loaded_stage, loaded_state, stage, state) ==
    IF convs[c].exists
    THEN [convs EXCEPT
            ![c].current_stage = IF stage # loaded_stage THEN stage ELSE @,
            ![c].conversation_state = IF state # loaded_state THEN state ELSE @]
    ELSE convs

\* chat.py:79  the finalization trigger
EntersClosingOnChange(next_stage, previous_stage) == next_stage # previous_stage

EntersClosingAlways(next_stage, previous_stage) == next_stage = "CLOSING"

EntersClosing(next_stage, previous_stage) ==
    next_stage = "CLOSING" /\ previous_stage # "CLOSING"

\* the run of CLOSING of conversation c after its stage went from `before`
\* to `after`
RunAfterSave(c, before, after) ==
    IF after # "CLOSING" THEN [closing_run EXCEPT ![c] = [active |-> FALSE, calls |-> 0]]
    ELSE IF before # "CLOSING" THEN [closing_run EXCEPT ![c] = [active |-> TRUE, calls |-> 0]]
    ELSE closing_run

\* chat.py:76-79
SaveState(p, f) ==
    /\ turn[p].pc = "save"
    /\ IF f THEN Raise(p) /\ UNCHANGED <<conversations, closing_run>>
       ELSE /\ conversations' = save_state(conversations, turn[p].conversation_id,
                                           turn[p].stage, turn[p].state,
                                           turn[p].next_stage, turn[p].current_state)
            /\ closing_run' = RunAfterSave(turn[p].conversation_id,
                                           conversations[turn[p].conversation_id].current_stage,
                                           conversations'[turn[p].conversation_id].current_stage)
            /\ turn' = [turn EXCEPT
                    ![p].expired = TRUE,
                    ![p].stage = turn[p].next_stage,
                    ![p].stage_pending = TRUE,
                    ![p].pc = IF EntersClosing(turn[p].next_stage, turn[p].previous_stage)
                              THEN "finalize" ELSE "log_bot"]
    /\ UNCHANGED <<chat_logs, audit, posts, clock, turns, api, api_calls>>

\* the session's pending write of chat.py:77 goes out with its next commit
Flush(convs, p) ==
    IF turn[p].stage_pending /\ convs[turn[p].conversation_id].exists
    THEN [convs EXCEPT ![turn[p].conversation_id].current_stage = turn[p].stage]
    ELSE convs

\* chat.py:83 and state_manager.py:32-34: the query reloads the session's
\* expired object from the row, and the guard is taken on what it loaded
FinalizeQuery(p) ==
    /\ turn[p].pc = "finalize"
    /\ LET c == turn[p].conversation_id
       IN  turn' = [turn EXCEPT
                ![p].finalizable = Finalizable(conversations, c),
                ![p].state = IF conversations[c].exists
                             THEN conversations[c].conversation_state ELSE @,
                ![p].expired = FALSE,
                ![p].pc = "finalize_commit"]
    /\ UNCHANGED <<tables, posts, clock, turns, api, api_calls, closing_run>>

\* state_manager.py:34-47; the return value is dropped (chat.py:83)
Finalize(p, f) ==
    /\ turn[p].pc = "finalize_commit"
    /\ LET c == turn[p].conversation_id
           ok == turn[p].finalizable
           ret == FinalizeReturn(ok, f)
           committed == FinalizeCommits(ok, f)
           after == FinalizeTable(IF committed THEN Flush(conversations, p) ELSE conversations,
                                  c, ok, f, clock)
       IN  /\ conversations' = after
           /\ clock' = IF committed THEN clock + 1 ELSE clock
           /\ turn' = [turn EXCEPT
                   ![p].finalize_result = ret,
                   ![p].finalizable = FALSE,
                   ![p].store_fault = @ \/ f # "none",
                   ![p].fault_step = IF f # "none" THEN f ELSE @,
                   \* rollback() expires the object and drops the pending write
                   ![p].expired = ret = "False",
                   ![p].stage_pending = IF ret = "None" THEN @ ELSE FALSE,
                   \* refresh() after the commit
                   ![p].state = IF ret = "True" THEN after[c].conversation_state ELSE @,
                   ![p].pc = "refetch"]
    /\ UNCHANGED <<chat_logs, audit, posts, turns, api, api_calls, closing_run>>

\* chat.py:85-86 and state_manager.py:73-75: the query returns the session's
\* object, reloaded only if expired
Refetch(p, f) ==
    /\ turn[p].pc = "refetch"
    /\ LET row == conversations[turn[p].conversation_id]
           state == IF turn[p].expired THEN row.conversation_state ELSE turn[p].state
       IN  IF f THEN Raise(p)
           ELSE turn' = [turn EXCEPT
                   ![p].expired = FALSE,
                   ![p].state = state,
                   ![p].lead_details = IF row.exists THEN state ELSE EmptyDict,
                   ![p].pc = "route"]
    /\ UNCHANGED <<tables, posts, clock, turns, api, api_calls, closing_run>>

\* webhook_routing_service.py:15-21  if not client or not client.lead_webhook_url
SkipsOnlyMissingClient(t) == t \notin Clients

SkipsDelivery(t) == t \notin Clients \/ lead_webhook_url[t] \in {Null, ""}

\* webhook_routing_service.py:10-34: look the tenant up; return when it has
\* no row or no URL, or when anything raises (the outer except)
RouteLookup(p, f) ==
    /\ turn[p].pc = "route"
    /\ closing_run' = [closing_run EXCEPT ![turn[p].conversation_id].calls = @ + 1]
    /\ LET t == turn[p].client_id
           skip == f \/ SkipsDelivery(t)
       IN  IF skip
           THEN /\ turn' = [turn EXCEPT ![p].route_calls = @ + 1, ![p].pc = "log_bot"]
                /\ UNCHANGED clock
           ELSE /\ turn' = [turn EXCEPT
                       ![p].route_calls = @ + 1,
                       ![p].url = lead_webhook_url[t],
                       ![p].payload = Payload(t, turn[p].conversation_id,
                                              turn[p].lead_details, clock),
                       ![p].pc = "post"]
                /\ clock' = clock + 1
    /\ UNCHANGED <<tables, posts, turns, api, api_calls>>

\* webhook_routing_service.py:40-60: where the request goes on after the
\* POST: every outcome is logged and swallowed
PostRaisesOnError(outcome) == IF outcome = "200" THEN "log_bot" ELSE "failed"

PostEnds(outcome) == "log_bot"

\* webhook_routing_service.py:36-62: one POST; nothing is written to the
\* webhook_* tables
Post(p, outcome) ==
    /\ turn[p].pc = "post"
    /\ posts' = Append(posts, [url |-> turn[p].url, payload |-> turn[p].payload])
    /\ turn' = [turn EXCEPT ![p].post_calls = @ + 1, ![p].post_outcome = outcome,
                            ![p].pc = PostEnds(outcome)]
    /\ UNCHANGED <<tables, clock, turns, api, api_calls, closing_run>>

\* chat.py:95-97
LogBot(p, f) ==
    /\ turn[p].pc = "log_bot"
    /\ IF f THEN Raise(p) /\ UNCHANGED <<conversations, chat_logs>>
       ELSE /\ chat_logs' = AppendLog(chat_logs, LogRow(turn[p].conversation_id, "bot",
                                                        turn[p].response_text, "patient"))
            /\ conversations' = Flush(conversations, p)
            /\ turn' = [turn EXCEPT ![p] = Ended(turn[p], "done", turn[p].response_text)]
    /\ UNCHANGED <<audit, posts, clock, turns, api, api_calls, closing_run>>

(***************************************************************************)
(* Direct calls of the store operations, between turns                     *)
(***************************************************************************)
Quiet == \A p \in Procs : ~InFlight(p)

\* state_manager.finalize_conversation(db, c)
ApiFinalize(c, f) ==
    /\ Quiet
    /\ api_calls < MaxApiCalls
    /\ api_calls' = api_calls + 1
    /\ conversations' = FinalizeTable(conversations, c, Finalizable(conversations, c), f, clock)
    /\ clock' = IF FinalizeCommits(Finalizable(conversations, c), f) THEN clock + 1 ELSE clock
    /\ api' = [op |-> "finalize_conversation", conversation_id |-> c,
               result |-> FinalizeReturn(Finalizable(conversations, c), f)]
    /\ UNCHANGED <<chat_logs, audit, posts, turn, turns, closing_run>>

\* state_manager.log_message(db, c, sender, m, agent_type='clinical'); the
\* insert needs the conversation row (chat_logs.conversation_id is a foreign key)
ApiLogMessage(c, sender, m) ==
    /\ Quiet
    /\ api_calls < MaxApiCalls
    /\ api_calls' = api_calls + 1
    /\ IF conversations[c].exists
       THEN /\ chat_logs' = AppendLog(chat_logs, LogRow(c, sender, m, "clinical"))
            /\ api' = [op |-> "log_message", conversation_id |-> c, result |-> "None"]
       ELSE /\ UNCHANGED chat_logs
            /\ api' = [op |-> "log_message", conversation_id |-> c, result |-> "raised"]
    /\ UNCHANGED <<conversations, audit, posts, clock, turn, turns, closing_run>>

\* the outputs that book nothing and stay, or close
ClosingOutputs ==
    [response_text : {"Sure."}, updated_details : {EmptyDict}, next_stage : {"", "CLOSING"}]

NoFaults == {FALSE}
NoFinalizeFaults == {"none"}

\* the variables the chat handler and the store operations never touch
others == <<practice_profiles, clinical, wait>>

\* the turns of a conversation that have ended, counted as they end: a turn
\* completes at chat.py:97, and a turn that raises after chat.py:48 has logged
\* its user message ends with that message kept
Tally(p) ==
    LET c == turn[p].conversation_id
        logged == turn[p].pc \in {"retrieve", "agent", "save", "finalize",
                                  "finalize_commit", "refetch", "route", "post", "log_bot"}
    IN  tally' = IF InFlight(p) /\ turn'[p].pc = "done"
                 THEN [tally EXCEPT ![c].completed = @ + 1]
                 ELSE IF logged /\ turn'[p].pc = "failed"
                      THEN [tally EXCEPT ![c].aborted = @ + 1]
                      ELSE tally

\* one statement of request p: conversation ids C and tenants T in requests,
\* generator outputs O, retriever outcomes R, POST outcomes PO, store faults
\* F and FF
ProcStatement(p, C, T, O, R, PO, F, FF) ==
    \/ \E c \in C, t \in T, m \in UserMessages, f \in F : StartTurn(p, c, t, m, f)
    \/ \E f \in F : CreateConversation(p, f)
    \/ \E f \in F : GetHistory(p, f)
    \/ \E f \in F : LogUser(p, f)
    \/ \E r \in R, f \in F : Retrieve(p, r, f)
    \/ \E out \in O \cup {GeneratorFault} : Generate(p, out)
    \/ \E f \in F : SaveState(p, f)
    \/ FinalizeQuery(p)
    \/ \E f \in FF : Finalize(p, f)
    \/ \E f \in F : Refetch(p, f)
    \/ \E f \in F : RouteLookup(p, f)
    \/ \E outcome \in PO : Post(p, outcome)
    \/ \E f \in F : LogBot(p, f)

\* one step of request p
ProcStepR(p, C, T, O, R, PO, F, FF) ==
    /\ ProcStatement(p, C, T, O, R, PO, F, FF)
    /\ Tally(p)
    /\ UNCHANGED others

\* one step of request p, the retriever answering or failing
ProcStep(p, C, T, O, PO, F, FF) == ProcStepR(p, C, T, O, RetrieverOutcomes, PO, F, FF)

\* requests served one at a time
TurnStep(C, T, O, PO, F, FF) == ProcStep("p1", C, T, O, PO, F, FF)

ApiCall ==
    \/ \E c \in ConvIds, f \in FinalizeFaults : ApiFinalize(c, f)
    \/ \E c \in ConvIds, m \in ClinicalMessages : ApiLogMessage(c, "user", m)

ApiStep == ApiCall /\ UNCHANGED <<tally, others>>

\* turns on one conversation, the store available
Next == TurnStep({"c1"}, TenantIds, AgentOutputs, PostOutcomes, NoFaults, NoFinalizeFaults)
Spec == Init /\ [][Next]_vars

\* turns on one conversation, the store failing at any step
NextFaults == TurnStep({"c1"}, TenantIds, FewOutputs, {"200", "500"}, BOOLEAN, FinalizeFaults)
SpecFaults == Init /\ [][NextFaults]_vars

\* turns on two conversations and direct calls of the store operations
NextApi == TurnStep(ConvIds, {"t1"}, ClosingOutputs, {"200"}, NoFaults, NoFinalizeFaults) \/ ApiStep
SpecApi == Init /\ [][NextApi]_vars

(***************************************************************************)
(* Properties                                                              *)
(***************************************************************************)
IsSet(v) == v \notin {Null, Absent}
Row(p) == conversations[turn[p].conversation_id]

\* C1: over turns run one after another, a conversation_state field that is
\* non-null stays non-null, and its value changes only in the save of a turn
\* whose updated_details gives that key the new, non-null value: a null or
\* omitted key leaves the value as it was.
C1_MonotonicMerge ==
    [][\A c \in ConvIds, k \in Keys :
          (conversations[c].exists /\ IsSet(conversations[c].conversation_state[k]))
          => /\ conversations'[c].exists
             /\ IsSet(conversations'[c].conversation_state[k])
             /\ (conversations'[c].conversation_state[k] # conversations[c].conversation_state[k]
                   => \E p \in Procs :
                        /\ turn[p].pc = "save"
                        /\ turn[p].conversation_id = c
                        /\ turn[p].agent_output.updated_details[k]
                              = conversations'[c].conversation_state[k])]_vars

\* a turn whose extraction gave null for "name" has saved, and the name an
\* earlier turn set is still there
C1_Witness ==
    \E p \in Procs :
        /\ turn[p].pc = "log_bot"
        /\ turn[p].agent_output.updated_details["name"] = Null
        /\ turn[p].state_before["name"] = "v1"
        /\ Row(p).conversation_state["name"] = "v1"

\* C2: while a conversation's stage is in a run of CLOSING (entered in some
\* turn, kept by every later turn), route_via_webhook has been invoked for
\* it exactly once since the run began: by the turn that entered CLOSING
\* (zero only while that turn is between its save and its delivery).
C2_ExactlyOnceTrigger ==
    \A c \in ConvIds :
        closing_run[c].active
        => closing_run[c].calls =
              (IF \E p \in Procs : /\ turn[p].conversation_id = c
                                   /\ turn[p].pc \in {"finalize", "finalize_commit", "refetch",
                                                       "route"}
               THEN 0 ELSE 1)

\* the conversation entered CLOSING in the first turn and two further turns
\* kept it there
C2_Witness ==
    \E p \in Procs :
        /\ turns = 3
        /\ turn[p].pc = "done"
        /\ turn[p].previous_stage = "CLOSING"
        /\ turn[p].next_stage = "CLOSING"
        /\ Len(chat_logs) = 6
        /\ closing_run[turn[p].conversation_id] = [active |-> TRUE, calls |-> 1]

\* C3: no turn that starts with is_finalized = true invokes
\* route_via_webhook, and no conversation's lead is POSTed more than once.
C3_NoDeliveryOnceFinalized ==
    /\ \A p \in Procs : turn[p].started_finalized => turn[p].route_calls = 0
    /\ \A c \in ConvIds :
          Cardinality({i \in DOMAIN posts : posts[i].payload.conversation_id = c}) <= 1

\* C4: finalize_conversation on a conversation that does not exist or is
\* already finalized returns a falsy result (None or False, never True) and
\* leaves the conversations table as it was: no row is created and no row's
\* is_finalized, finalized_at, current_stage or conversation_state changes,
\* however often it is called.
C4_FinalizeIsNoOp ==
    [][/\ (/\ api_calls' = api_calls + 1
           /\ api'.op = "finalize_conversation"
           /\ (\/ ~conversations[api'.conversation_id].exists
               \/ conversations[api'.conversation_id].is_finalized))
          => (api'.result \in {"None", "False"} /\ conversations' = conversations)
       /\ \A p \in Procs :
            (/\ turn[p].pc = "finalize_commit" /\ turn'[p].pc = "refetch"
             /\ Row(p).is_finalized)
            => (turn'[p].finalize_result \in {"None", "False"}
                /\ conversations' = conversations)]_vars

\* a second direct call on a conversation the first call finalized
C4_Witness ==
    /\ api_calls = 2
    /\ api.op = "finalize_conversation"
    /\ api.result = "None"
    /\ conversations[api.conversation_id].exists
    /\ conversations[api.conversation_id].is_finalized
    /\ conversations[api.conversation_id].finalized_at < clock - 1

\* C5: in a turn whose generator faulted, the stored conversation_state and
\* current_stage are those the turn started with, nothing is finalized or
\* delivered, the turn ends in an error only if the store failed, and the
\* reply it returns is the fixed fallback text.
C5_FallbackOnGeneratorFault ==
    \A p \in Procs :
        turn[p].generator_fault
        => /\ Row(p).conversation_state = turn[p].state_before
           /\ Row(p).current_stage = turn[p].previous_stage
           /\ turn[p].route_calls = 0
           /\ turn[p].finalize_result = "not called"
           /\ (turn[p].pc = "failed" => turn[p].store_fault)
           /\ (turn[p].pc = "done" => turn[p].reply = FallbackText)

\* a turn in BOOKING_APPOINTMENT with a name already collected has returned
\* after a generator fault
C5_Witness ==
    \E p \in Procs :
        /\ turn[p].pc = "done"
        /\ turn[p].generator_fault
        /\ turn[p].previous_stage = "BOOKING_APPOINTMENT"
        /\ turn[p].state_before["name"] = "v1"

\* C6: a turn invokes route_via_webhook only if finalize_conversation
\* returned True in that turn.
C6_DeliveryOnlyAfterFinalize ==
    \A p \in Procs : turn[p].route_calls > 0 => turn[p].finalize_result = "True"

\* C7: a turn of a tenant that has no row or no lead_webhook_url never
\* POSTs and leaves the webhook_* tables empty, and when it has entered
\* CLOSING and gone through delivery the conversation is finalized with
\* finalized_at set.
C7_SkipWithoutTarget ==
    \A p \in Procs :
        (/\ turn[p].pc # "idle"
         /\ (turn[p].client_id \notin Clients \/ lead_webhook_url[turn[p].client_id] = Null))
        => /\ turn[p].pc # "post"
           /\ turn[p].post_calls = 0
           /\ webhook_attempts = <<>> /\ webhook_successes = <<>> /\ webhook_failures = <<>>
           /\ (turn[p].route_calls > 0
                 => Row(p).is_finalized /\ Row(p).finalized_at # NullTime)

\* the first turn of a tenant without URL went to CLOSING and returned: the
\* conversation is finalized and nothing was POSTed
C7_Witness ==
    \E p \in Procs :
        /\ turn[p].pc = "done"
        /\ turn[p].client_id = "t2"
        /\ turn[p].route_calls = 1
        /\ turn[p].finalize_result = "True"
        /\ Row(p).is_finalized
        /\ posts = <<>>

\* C8: the history a patient turn obtains for its conversation holds no
\* message that was logged for that conversation under another channel.
C8_ChannelIsolation ==
    \A p \in Procs : \A i \in DOMAIN turn[p].history :
        ~ \E j \in DOMAIN chat_logs :
            /\ chat_logs[j].conversation_id = turn[p].conversation_id
            /\ chat_logs[j].agent_type # "patient"
            /\ chat_logs[j].message = turn[p].history[i].content

\* C9: every POST made has an attempt record of its tenant and
\* conversation, and once its outcome is known exactly one success or
\* failure record.
C9_DeliveryAudited ==
    /\ \A i \in DOMAIN posts : \E j \in DOMAIN webhook_attempts :
          /\ webhook_attempts[j].client_id = posts[i].payload.client_id
          /\ webhook_attempts[j].conversation_id = posts[i].payload.conversation_id
    /\ Len(webhook_successes) + Len(webhook_failures) = Len(posts)

C10_AfterPost ==
    \A p \in Procs :
        turn[p].post_outcome # "none"
        => /\ turn[p].post_calls = 1
           /\ turn[p].route_calls = 1
           /\ turn[p].pc \in {"log_bot", "done"}
           /\ Row(p).is_finalized
           /\ Row(p).current_stage = "CLOSING"
           /\ (turn[p].pc = "done"
                 => /\ turn[p].reply \notin {"", FallbackText, DefaultText}
                    /\ chat_logs[Len(chat_logs)]
                         = LogRow(turn[p].conversation_id, "bot", turn[p].reply, "patient"))

C10_PostStep ==
    \A p \in Procs :
        (turn[p].pc = "post" /\ turn'[p].pc # "post")
        => /\ turn'[p].pc = "log_bot"
           /\ conversations' = conversations
           /\ Len(posts') = Len(posts) + 1

\* C10: whatever the POST's outcome (200, another status, a transport
\* error, another exception), route_via_webhook has made that one POST and
\* returned, the conversation's row is as it was (finalized, in CLOSING),
\* and the turn goes on to log the assistant's reply and return it.
C10_DeliveryOutcomeIsolated == [](C10_AfterPost) /\ [][C10_PostStep]_vars

\* a turn has returned its reply after a POST that ended in a transport error
C10_Witness ==
    \E p \in Procs :
        /\ turn[p].pc = "done"
        /\ turn[p].post_outcome = "RequestError"
        /\ turn[p].reply = "Sure."

\* C11: a turn whose retriever faulted goes on as a turn without context:
\* it does not end in an error, and the generator is invoked with context "".
C11_RetrieverFaultDegrades ==
    \A p \in Procs :
        turn[p].retriever_fault
        => /\ turn[p].pc # "failed"
           /\ (turn[p].pc = "agent" => turn[p].context = "")

\* C12: a turn in which the store failed in a persistence step (creating the
\* conversation, logging a message, save_state, the commit inside
\* finalize_conversation) has ended in an error at that step: it is not at
\* any later step and has returned no reply.
C12_PersistenceFaultIsFatal ==
    \A p \in Procs :
        turn[p].fault_step \in {"create", "log_user", "save", "before commit", "log_bot"}
        => turn[p].pc = "failed" /\ turn[p].reply = ""

(***************************************************************************)
(* Turns whose generator may name a stage outside the enumeration          *)
(***************************************************************************)
\* next_stage is a free str (agent.py:63-66): a value the generator made up
UnknownStage == "RESCHEDULING"

StageOutputs ==
    [response_text : {"Sure."},
     updated_details : {EmptyDict, [name |-> "v1", notes |-> Absent]},
     next_stage : NextStageValues \cup {UnknownStage}]

NextStages == TurnStep({"c1"}, {"t1", "t2"}, StageOutputs, {"200"}, NoFaults, NoFinalizeFaults)
SpecStages == Init /\ [][NextStages]_vars

\* C13: every conversation's current_stage is one of GREETING,
\* BOOKING_APPOINTMENT, ANSWERING_QUESTION, CLOSING, whatever next_stage the
\* generator returned.
C13_StageInEnumeration ==
    \A c \in ConvIds : conversations[c].exists => conversations[c].current_stage \in Stages

(***************************************************************************)
(* Requests in progress at the same time, each in its own session.  The    *)
(* store sees the statements of the sessions in any order (the requests    *)
(* may be served by several worker processes); within one event loop a     *)
(* request gives way to another only where handle_chat_message awaits.     *)
(***************************************************************************)
\* the outputs that extract one field, and stay or close
ConcurrentOutputs ==
    [response_text : {"Sure."},
     updated_details : {[name |-> "v1", notes |-> Absent], [name |-> Absent, notes |-> "v2"]},
     next_stage : {"", "CLOSING"}]

\* two requests on one conversation, their steps interleaved
NextConcurrent ==
    \E p \in Procs :
        /\ InFlight(p) \/ turns < MaxConcurrentTurns
        /\ ProcStep(p, {"c1"}, {"t1"}, ConcurrentOutputs, {"200"}, NoFaults, NoFinalizeFaults)
SpecConcurrent == Init /\ [][NextConcurrent]_vars

\* chat.py:54 (await agent.get_agent_response) and
\* webhook_routing_service.py:38 (await client_post.post)
AwaitPoints == {"agent", "post"}

Suspended(q) == turn[q].pc \in AwaitPoints \cup {"idle", "done", "failed"}

\* two requests on one conversation in one event loop
NextEventLoop ==
    \E p \in Procs :
        /\ \A q \in Procs \ {p} : Suspended(q)
        /\ InFlight(p) \/ turns < MaxConcurrentTurns
        /\ ProcStep(p, {"c1"}, {"t1"}, ConcurrentOutputs, {"200"}, NoFaults, NoFinalizeFaults)
SpecEventLoop == Init /\ [][NextEventLoop]_vars

\* the outputs that extract the name and close, or extract notes and stay
PairOutputs ==
    {out \in ConcurrentOutputs :
        out.updated_details["name"] = "v1" <=> out.next_stage = "CLOSING"}

\* requests on two conversations, their steps interleaved
NextPair ==
    \E p \in Procs :
        /\ InFlight(p) \/ turns < MaxConcurrentTurns
        /\ ProcStep(p, ConvIds, {"t1"}, PairOutputs, {"200"}, NoFaults, NoFinalizeFaults)
SpecPair == Init /\ [][NextPair]_vars

C14_FlagMatchesStamp ==
    \A c \in ConvIds :
        conversations[c].exists
        => (conversations[c].is_finalized <=> conversations[c].finalized_at # NullTime)

C14_FinalizedStays ==
    \A c \in ConvIds :
        (conversations[c].exists /\ conversations[c].is_finalized)
        => /\ conversations'[c].exists
           /\ conversations'[c].is_finalized
           /\ conversations'[c].finalized_at = conversations[c].finalized_at

\* C14: in every state is_finalized is true exactly when finalized_at is
\* non-null, and no operation run to its end (load_or_create_conversation,
\* save_state, log_message, finalize_conversation, any step of a turn) takes
\* is_finalized from true to false or changes a non-null finalized_at.
C14_FinalizedOnce == [](C14_FlagMatchesStamp) /\ [][C14_FinalizedStays]_vars

\* a second whole turn has run on a conversation that was finalized when it
\* started, and the row still carries the flag and the timestamp
C14_Witness ==
    \E p \in Procs :
        /\ turn[p].pc = "done"
        /\ turn[p].started_finalized
        /\ Len(chat_logs) >= 4
        /\ Row(p).is_finalized
        /\ Row(p).finalized_at # NullTime

\* the requests whose turn on conversation c took it from another stage to
\* CLOSING
Closers(c) ==
    {p \in Procs : /\ turn[p].conversation_id = c
                   /\ turn[p].previous_stage \notin {"", "CLOSING"}
                   /\ turn[p].next_stage = "CLOSING"}

\* C15: of two concurrent turns that both take a conversation from a
\* non-CLOSING stage to CLOSING, at most one gets True from
\* finalize_conversation (so finalized_at is written by one commit only) and
\* at most one invokes route_via_webhook.
C15_FinalizeOnceConcurrently ==
    \A c \in ConvIds :
        /\ Cardinality({p \in Closers(c) : turn[p].finalize_result = "True"}) <= 1
        /\ Cardinality({p \in Closers(c) : turn[p].route_calls > 0}) <= 1

\* C16: when two concurrent turns on one conversation have both completed,
\* one having extracted a non-null "name" and the other a non-null "notes",
\* the stored conversation_state holds both fields.
C16_NoLostMerge ==
    \A p, q \in Procs :
        (/\ p # q
         /\ turn[p].pc = "done" /\ turn[q].pc = "done"
         /\ turn[p].conversation_id = turn[q].conversation_id
         /\ turn[p].extracted = {"name"} /\ turn[q].extracted = {"notes"})
        => /\ IsSet(Row(p).conversation_state["name"])
           /\ IsSet(Row(p).conversation_state["notes"])

\* the logged messages of conversation c, in order
LogsOf(logs, c) == SelectSeq(logs, LAMBDA r : r.conversation_id = c)

\* C17: a step of a turn on one conversation leaves every other
\* conversation's row (current_stage, conversation_state, is_finalized,
\* finalized_at) and logged messages as they were, however the steps of the
\* turns on the two conversations interleave.
C17_OtherConversationUntouched ==
    [][\A p \in Procs :
          turn'[p] # turn[p]
          => \A c \in ConvIds \ {turn'[p].conversation_id} :
                /\ conversations'[c] = conversations[c]
                /\ LogsOf(chat_logs', c) = LogsOf(chat_logs, c)]_vars

\* turns on both conversations have run interleaved: one is finalized with
\* both its messages logged while the other, started in between, is still
\* at stage GREETING
C17_Witness ==
    /\ turn["p1"].pc = "done" /\ turn["p2"].pc = "done"
    /\ turn["p1"].conversation_id = "c1" /\ turn["p2"].conversation_id = "c2"
    /\ conversations["c1"].is_finalized
    /\ conversations["c1"].conversation_state["name"] = "v1"
    /\ conversations["c2"].current_stage = "GREETING"
    /\ conversations["c2"].conversation_state["notes"] = "v2"
    /\ conversations["c2"].conversation_state["name"] = Null
    /\ ~conversations["c2"].is_finalized
    /\ Len(LogsOf(chat_logs, "c1")) = 2 /\ Len(LogsOf(chat_logs, "c2")) = 2
    /\ chat_logs[1].conversation_id = "c1" /\ chat_logs[2].conversation_id = "c2"
    /\ chat_logs[3].conversation_id = "c1"

\* C18: no request of a tenant that has a clients row ends in an error
\* inside load_or_create_conversation, however the requests interleave: a
\* request past it has its conversation in the table, and two first
\* requests with the same new identifier both go on.
C18_CreateNeverErrors ==
    \A p \in Procs :
        turn[p].client_id \in Clients
        => /\ turn[p].fault_step \notin {"start", "create"}
           /\ (turn[p].pc \in {"history", "log_user", "retrieve", "agent"}
                 => conversations[turn[p].conversation_id].exists)

\* the request has got past the log_message of chat.py:48, whether it went
\* on, returned, or ended in an error at a later step
PastLogUser(p) ==
    \/ turn[p].pc \in {"retrieve", "agent", "save", "finalize", "finalize_commit",
                       "refetch", "route", "post", "log_bot", "done"}
    \/ /\ turn[p].pc = "failed"
       /\ \/ turn[p].retriever_fault
          \/ turn[p].fault_step \in {"retrieve", "save", "refetch", "log_bot"}

C19_UserMessageKept ==
    \A p \in Procs :
        PastLogUser(p)
        => \E i \in DOMAIN chat_logs :
              chat_logs[i] = [conversation_id |-> turn[p].conversation_id,
                              sender_type |-> "user", message |-> turn[p].message,
                              agent_type |-> "patient"]

C19_LogUserStep ==
    /\ \A p \in Procs :
          (turn[p].pc = "log_user" /\ turn'[p].pc = "retrieve")
          => /\ Len(chat_logs') = Len(chat_logs) + 1
             /\ chat_logs'[Len(chat_logs')].sender_type = "user"
             /\ chat_logs'[Len(chat_logs')].message = turn[p].message
             /\ chat_logs'[Len(chat_logs')].conversation_id = turn[p].conversation_id
             /\ ~turn[p].retriever_called
             /\ turn[p].agent_output = NoOutput
    /\ Len(chat_logs') >= Len(chat_logs)
    /\ SubSeq(chat_logs', 1, Len(chat_logs)) = chat_logs

\* C19: the step that logs the user's message comes before the retriever
\* and the generator are invoked, nothing removes a logged message, and so
\* a turn that is past that step (going on, returned, or aborted at
\* retrieval, save_state, the re-read or the log of the reply) has its user
\* message in the log.
C19_UserMessageFirst == [](C19_UserMessageKept) /\ [][C19_LogUserStep]_vars

\* a first turn was aborted by a store fault in save_state, after the
\* generator had answered: the log holds the user's message and nothing else
C19_Witness ==
    \E p \in Procs :
        /\ turn[p].pc = "failed"
        /\ turn[p].fault_step = "save"
        /\ Len(chat_logs) = 1
        /\ chat_logs[1].sender_type = "user"
        /\ chat_logs[1].message = turn[p].message

\* the request has got past the retrieval of chat.py:50-52
PastRetrieve(p) ==
    \/ turn[p].pc \in {"agent", "save", "finalize", "finalize_commit", "refetch", "route",
                       "post", "log_bot", "done"}
    \/ turn[p].retriever_fault

\* C20: a turn has called the retriever exactly if the conversation's stage
\* at the start of the turn was GREETING or ANSWERING_QUESTION, and a turn
\* that did not call it invokes the generator with context "".
C20_RetrievalByStage ==
    \A p \in Procs :
        PastRetrieve(p)
        => /\ turn[p].retriever_called
                <=> turn[p].start_stage \in {"GREETING", "ANSWERING_QUESTION"}
           /\ ((turn[p].pc = "agent" /\ ~turn[p].retriever_called) => turn[p].context = "")

\* a turn that started in BOOKING_APPOINTMENT is about to invoke the
\* generator and has not called the retriever
C20_Witness ==
    \E p \in Procs :
        /\ turn[p].pc = "agent"
        /\ turn[p].start_stage = "BOOKING_APPOINTMENT"
        /\ ~turn[p].retriever_called
        /\ turn[p].context = ""

(***************************************************************************)
(* get_conversation_history as a function of the log: every log of up to   *)
(* MaxLogLen rows, every conversation, limit and channel                   *)
(***************************************************************************)
MaxLogLen == 3
LogSenders == {"user", "bot"}
LogMessages == {"hello", "Sure."}
AgentTypes == {"patient", "clinical"}
LogRows ==
    [conversation_id : ConvIds, sender_type : LogSenders, message : LogMessages,
     agent_type : AgentTypes]
BoundedLogs == UNION {[1..n -> LogRows] : n \in 0..MaxLogLen}

\* both conversations exist, and any messages have been logged so far
InitHistory ==
    /\ conversations = [c \in ConvIds |-> NewConversation("t1", "patient")]
    /\ chat_logs \in BoundedLogs
    /\ NothingRun

\* state_manager.get_conversation_history(db, c, limit=n, agent_type=a)
ApiGetHistory(c, n, a) ==
    /\ api.op = "none"
    /\ api' = [op |-> "get_conversation_history", conversation_id |-> c, limit |-> n,
               agent_type |-> a,
               result |-> get_conversation_history(chat_logs, c, n, a)]
    /\ UNCHANGED <<tables, posts, clock, turn, turns, api_calls, closing_run, tally, others>>

NextHistory ==
    \E c \in ConvIds, n \in 0..MaxLogLen, a \in AgentTypes \cup {Null} : ApiGetHistory(c, n, a)
SpecHistory == InitHistory /\ [][NextHistory]_vars

\* the positions of the rows of conversation c (of channel a, when one is given)
Matching(logs, c, a) ==
    {i \in 1..Len(logs) : /\ logs[i].conversation_id = c
                          /\ (a = Null \/ logs[i].agent_type = a)}

\* C21: get_conversation_history returns min(N, number of matching messages)
\* messages: the N most recently created matching messages, in ascending
\* creation order, sender 'user' as a human message and any other sender as
\* an assistant message.
C21_HistoryIsNewestN ==
    api.op = "get_conversation_history" =>
        LET M == Matching(chat_logs, api.conversation_id, api.agent_type)
            k == IF api.limit < Cardinality(M) THEN api.limit ELSE Cardinality(M)
            newest == {i \in M : Cardinality({j \in M : j > i}) < k}
            rank(i) == Cardinality({j \in newest : j <= i})
        IN  /\ Len(api.result) = k
            /\ \A i \in newest :
                   api.result[rank(i)] =
                       [type |-> IF chat_logs[i].sender_type = "user" THEN "human" ELSE "ai",
                        content |-> chat_logs[i].message]

\* three matching messages, the newest two asked for, of two senders
C21_Witness ==
    /\ api.op = "get_conversation_history"
    /\ api.limit = 2
    /\ Cardinality(Matching(chat_logs, api.conversation_id, api.agent_type)) = 3
    /\ api.result = <<[type |-> "ai", content |-> "Sure."], [type |-> "human", content |-> "hello"]>>
    /\ chat_logs[1].message = "hello"

\* C22: when route_via_webhook is invoked in a finalizing turn, the
\* lead_details it is handed equal the conversation_state stored for that
\* conversation at that moment, however the turns interleave.
C22_DeliveredStateIsStored ==
    \A p \in Procs :
        turn[p].pc = "route" =>
            /\ conversations[turn[p].conversation_id].exists
            /\ turn[p].lead_details =
                   conversations[turn[p].conversation_id].conversation_state

\* C22, its last part: with no concurrent turn, route_via_webhook is handed
\* the state merged and saved in this turn.
C22_DeliveredStateIsSaved ==
    \A p \in Procs : turn[p].pc = "route" => turn[p].lead_details = turn[p].current_state

(***************************************************************************)
(* Two requests on one conversation, their steps interleaved, the store    *)
(* failing at any step, the retriever answering                            *)
(***************************************************************************)
NextLog ==
    \E p \in Procs :
        /\ InFlight(p) \/ turns < MaxConcurrentTurns
        /\ ProcStepR(p, {"c1"}, {"t1"}, ClosingOutputs, RetrieverOutcomes \ {"fault"},
                     {"200"}, BOOLEAN, NoFinalizeFaults)
SpecLog == Init /\ [][NextLog]_vars

\* the requests on conversation c that have logged their user message and
\* have not ended
Logging(c) ==
    {p \in Procs : /\ turn[p].conversation_id = c
                   /\ turn[p].pc \in {"retrieve", "agent", "save", "finalize",
                                      "finalize_commit", "refetch", "route", "post",
                                      "log_bot"}}

\* C23 as claimed: with no turn in progress, a conversation's log holds
\* exactly 2k messages after k completed turns.
C23_TwoPerCompletedTurn ==
    Quiet => \A c \in ConvIds : Len(LogsOf(chat_logs, c)) = 2 * tally[c].completed

\* a step of a turn logs at most one message, at the end of the log, and
\* leaves the messages logged before as they were; the user's message is
\* logged by the step of chat.py:48 and the reply by the turn's last step,
\* after finalize_conversation and route_via_webhook when the turn closes
C23_LogStep ==
    /\ Len(chat_logs') \in {Len(chat_logs), Len(chat_logs) + 1}
    /\ SubSeq(chat_logs', 1, Len(chat_logs)) = chat_logs
    /\ \A p \in Procs :
          /\ (turn[p].pc = "log_user" /\ turn'[p].pc = "retrieve")
                => chat_logs' = Append(chat_logs,
                       [conversation_id |-> turn[p].conversation_id, sender_type |-> "user",
                        message |-> turn[p].message, agent_type |-> "patient"])
          /\ (InFlight(p) /\ turn'[p].pc = "done")
                => /\ turn[p].pc = "log_bot"
                   /\ chat_logs' = Append(chat_logs,
                          [conversation_id |-> turn[p].conversation_id, sender_type |-> "bot",
                           message |-> turn'[p].reply, agent_type |-> "patient"])
                   /\ (turn[p].next_stage = "CLOSING" /\ turn[p].previous_stage # "CLOSING")
                          => turn[p].finalize_result # "not called" /\ turn[p].route_calls = 1
    /\ chat_logs' # chat_logs
          => \E p \in Procs : \/ turn[p].pc = "log_user" /\ turn'[p].pc = "retrieve"
                              \/ turn[p].pc = "log_bot" /\ turn'[p].pc = "done"

\* C23, amended: the log is append-only under any interleaving of turns, a
\* completed turn appends its user message first and its reply last, and a
\* conversation's log holds 2k + a messages after k completed turns and a
\* turns ended by an error after logging their user message (and one more
\* for each turn in progress that has logged its user message).
C23_AppendOnlyLog ==
    /\ [](\A c \in ConvIds :
             Len(LogsOf(chat_logs, c)) =
                 2 * tally[c].completed + tally[c].aborted + Cardinality(Logging(c)))
    /\ [][C23_LogStep]_vars

\* two turns on one conversation were in progress together; one completed,
\* the other was ended by a store error after logging its user message
C23_Witness ==
    /\ Quiet
    /\ tally["c1"].completed = 1
    /\ tally["c1"].aborted = 1
    /\ Len(chat_logs) = 3
    /\ chat_logs[1].sender_type = "user"
    /\ chat_logs[2].sender_type = "user"
    /\ chat_logs[3].sender_type = "bot"

(***************************************************************************)
(* Turns whose extraction may carry no next_stage: the key missing, null   *)
(* or the "" default of PatientAgentResponse (agent.py:63-66)              *)
(***************************************************************************)
NoStageOutputs ==
    [response_text : {"Sure."},
     updated_details : {EmptyDict, [name |-> "v1", notes |-> Absent]},
     next_stage : {"", Null, Absent, "BOOKING_APPOINTMENT", "CLOSING"}]

NextNoStage == TurnStep({"c1"}, {"t1"}, NoStageOutputs, {"200"}, NoFaults, NoFinalizeFaults)
SpecNoStage == Init /\ [][NextNoStage]_vars

\* the generator has answered request p, and its answer carries no next_stage
NoNextStage(p) ==
    /\ turn[p].pc \in {"save", "finalize", "finalize_commit", "refetch", "route", "post",
                       "log_bot"}
    /\ ~turn[p].generator_fault
    /\ turn[p].agent_output.next_stage \in {"", Null, Absent}

\* C24: a turn whose extraction carries no next_stage (missing, null or "")
\* persists the stage the conversation had when the turn started, and calls
\* neither finalize_conversation nor route_via_webhook.
C24_NoNextStageKeepsStage ==
    /\ [](\A p \in Procs :
             NoNextStage(p) =>
                 /\ turn[p].pc \in {"save", "log_bot"}
                 /\ turn[p].next_stage = turn[p].start_stage
                 /\ turn[p].finalize_result = "not called"
                 /\ turn[p].route_calls = 0
                 /\ turn[p].pc = "log_bot" =>
                        conversations[turn[p].conversation_id].current_stage
                            = turn[p].start_stage)
    /\ [][\A p \in Procs :
             (NoNextStage(p) /\ turn'[p].pc = "done") =>
                 /\ conversations'[turn[p].conversation_id].current_stage
                        = turn[p].start_stage
                 /\ turn'[p].finalize_result = "not called"
                 /\ turn'[p].route_calls = 0
                 /\ UNCHANGED <<audit, posts>>]_vars

\* a turn that started in BOOKING_APPOINTMENT, whose extraction has a null
\* next_stage, has saved
C24_Witness ==
    /\ turn["p1"].pc = "log_bot"
    /\ NoNextStage("p1")
    /\ turn["p1"].agent_output.next_stage = Null
    /\ turn["p1"].start_stage = "BOOKING_APPOINTMENT"
    /\ conversations["c1"].current_stage = "BOOKING_APPOINTMENT"

(***************************************************************************)
(* wait_for_db (db.py:23-51), against an engine whose connect fails a      *)
(* number of times before it succeeds, or always                           *)
(***************************************************************************)
MaxRetries == 3
MaxFailures == 5

\* db.py:48  if attempt > retries: return False
WaitGivesUpEarly(attempt, retries) == attempt >= retries

WaitGivesUp(attempt, retries) == attempt > retries

\* db.py:37  wait_for_db(retries=r, engine_obj=an engine failing k times, or
\* always when never)
WaitStart(r, k, never) ==
    /\ wait.pc = "idle"
    /\ wait' = [NotWaiting EXCEPT !.pc = "loop", !.retries = r,
                                  !.fails_before_success = IF never THEN 0 ELSE k,
                                  !.fails_always = never]
    /\ UNCHANGED <<tables, posts, clock, turn, turns, api, api_calls, closing_run, tally,
                   practice_profiles, clinical>>

\* db.py:38-50  one pass of the loop up to its return or its sleep
WaitConnect ==
    /\ wait.pc = "loop"
    /\ IF ~(wait.attempt <= wait.retries)
       THEN wait' = [wait EXCEPT !.pc = "done", !.result = "None"]
       ELSE IF ~wait.fails_always
               /\ wait.failed_connects >= wait.fails_before_success
            THEN wait' = [wait EXCEPT !.connects = @ + 1, !.pc = "done", !.result = "True"]
            ELSE IF WaitGivesUp(wait.attempt + 1, wait.retries)
                 THEN wait' = [wait EXCEPT !.connects = @ + 1, !.failed_connects = @ + 1,
                                           !.attempt = @ + 1,
                                           !.pc = "done", !.result = "False"]
                 ELSE wait' = [wait EXCEPT !.connects = @ + 1, !.failed_connects = @ + 1,
                                           !.attempt = @ + 1, !.pc = "sleep"]
    /\ UNCHANGED <<tables, posts, clock, turn, turns, api, api_calls, closing_run, tally,
                   practice_profiles, clinical>>

\* db.py:51  time.sleep(delay)
WaitSleep ==
    /\ wait.pc = "sleep"
    /\ wait' = [wait EXCEPT !.sleeps = @ + 1, !.pc = "loop"]
    /\ UNCHANGED <<tables, posts, clock, turn, turns, api, api_calls, closing_run, tally,
                   practice_profiles, clinical>>

NextWait ==
    \/ \E r \in 0..MaxRetries, k \in 0..MaxFailures, never \in BOOLEAN : WaitStart(r, k, never)
    \/ WaitConnect
    \/ WaitSleep

\* the loop is the straight-line code of one thread: a connect call returns
\* or raises, and a sleep returns
SpecWait == Init /\ [][NextWait]_vars /\ WF_vars(WaitConnect) /\ WF_vars(WaitSleep)

\* C25: for retries >= 0 and an engine whose connect fails k times before
\* succeeding (or always), wait_for_db terminates after min(k, retries + 1)
\* failed connects; it returns True when k <= retries, after k failures and
\* one success, and False otherwise, after retries + 1 failures; it sleeps
\* once between consecutive attempts and never after the last one.
C25_WaitForDb ==
    /\ [](wait.pc = "done" =>
            LET succeeds == /\ ~wait.fails_always
                            /\ wait.fails_before_success <= wait.retries
            IN  /\ wait.result = IF succeeds THEN "True" ELSE "False"
                /\ wait.failed_connects = IF succeeds THEN wait.fails_before_success
                                          ELSE wait.retries + 1
                /\ wait.connects = wait.failed_connects + (IF succeeds THEN 1 ELSE 0)
                /\ wait.sleeps = wait.connects - 1)
    /\ [](wait.pc = "sleep" => wait.sleeps = wait.connects - 1 /\ wait.attempt <= wait.retries)
    /\ (wait.pc = "loop" ~> wait.pc = "done")

\* two failures, then success on the third attempt of at most four
C25_Witness ==
    /\ wait.pc = "done"
    /\ wait.retries = 3
    /\ ~wait.fails_always
    /\ wait.fails_before_success = 2
    /\ wait.result = "True"
    /\ wait.sleeps = 2

\* the engine never connects: False after retries + 1 attempts
C25_WitnessGivesUp ==
    /\ wait.pc = "done"
    /\ wait.retries = 2
    /\ wait.fails_always
    /\ wait.result = "False"
    /\ wait.failed_connects = 3

\* what a finalize_conversation that went through leaves of the table: row c
\* flagged and stamped, everything else as it was
FinalizedOnly(c) ==
    /\ conversations'[c].is_finalized
    /\ conversations'[c].finalized_at # NullTime
    /\ conversations' = [conversations EXCEPT
                            ![c].is_finalized = TRUE,
                            ![c].finalized_at = conversations'[c].finalized_at]

\* C26: a finalize_conversation that raises nothing, on an existing and not
\* yet finalized conversation, returns True, sets is_finalized and a non-null
\* finalized_at in the same commit, and leaves the row's current_stage,
\* conversation_state and client_id, and every other conversation, unchanged;
\* called directly or from a closing turn.
C26_FinalizeFrame ==
    [][
        /\ \A c \in ConvIds :
              (/\ api_calls' = api_calls + 1
               /\ api'.op = "finalize_conversation"
               /\ api'.conversation_id = c
               /\ conversations[c].exists
               /\ ~conversations[c].is_finalized
               /\ api'.result # "False")
                  => api'.result = "True" /\ FinalizedOnly(c)
        /\ \A p \in Procs :
              (/\ turn[p].pc = "finalize_commit"
               /\ turn'[p].pc = "refetch"
               /\ conversations[turn[p].conversation_id].exists
               /\ ~conversations[turn[p].conversation_id].is_finalized
               /\ turn'[p].finalize_result # "False")
                  => /\ turn'[p].finalize_result = "True"
                     /\ FinalizedOnly(turn[p].conversation_id)
      ]_vars

\* c2 was finalized by a direct call while it was still in GREETING, and c1
\* exists and is not finalized
C26_Witness ==
    /\ api.op = "finalize_conversation"
    /\ api.conversation_id = "c2"
    /\ api.result = "True"
    /\ conversations["c2"].is_finalized
    /\ conversations["c2"].current_stage = "GREETING"
    /\ conversations["c1"].exists
    /\ ~conversations["c1"].is_finalized

(***************************************************************************)
(* clinical_chat (clinical.py:128-217), step by step, while patient turns  *)
(* are served                                                              *)
(***************************************************************************)
MaxClinicalTurns == 2
ClinicalApology == "I apologize, but I'm having difficulty processing your request."
ClinicalOutcomes == {"advice", "fault"}

\* state_manager.py:164-173  get_practice_profile: the practice_profiles
\* table after the call
ProfilesUpserted(profiles, client_id) ==
    IF profiles[client_id] = NoProfile
    THEN [profiles EXCEPT ![client_id] = [exists |-> TRUE, profile_json |-> EmptyProfile]]
    ELSE profiles

ProfilesAfterLookup(profiles, client_id) == profiles

\* dependencies.py: require_client_token looks the client up by its token;
\* a token no client has is answered 401
ClinicalStart(t, m) ==
    /\ clinical.pc \in {"idle", "done", "failed"}
    /\ clinical.served < MaxClinicalTurns
    /\ clinical' = [IdleClinical EXCEPT
                       !.served = clinical.served + 1,
                       !.client_id = t, !.message = m,
                       !.pc = IF t \in Clients THEN "profile" ELSE "failed",
                       !.status = IF t \in Clients THEN 0 ELSE 401]
    /\ UNCHANGED <<tables, posts, clock, turn, turns, api, api_calls, closing_run, tally,
                   practice_profiles, wait>>

\* clinical.py:157-165  get_practice_profile, and 404 when it returns None or
\* an empty profile
ClinicalProfile ==
    /\ clinical.pc = "profile"
    /\ practice_profiles' = ProfilesAfterLookup(practice_profiles, clinical.client_id)
    /\ LET profile == get_practice_profile(practice_profiles, clinical.client_id)
       IN  clinical' = IF profile \in {Null, EmptyProfile}
                       THEN [clinical EXCEPT !.pc = "failed", !.status = 404]
                       ELSE [clinical EXCEPT !.pc = "retrieve", !.profile = profile]
    /\ UNCHANGED <<tables, posts, clock, turn, turns, api, api_calls, closing_run, tally, wait>>

\* clinical.py:181-184  rag_engine.get_relevant_context; its exception is
\* not caught
ClinicalRetrieve(r) ==
    /\ clinical.pc = "retrieve"
    /\ clinical' = IF r = "fault" THEN [clinical EXCEPT !.pc = "failed", !.status = 500]
                   ELSE [clinical EXCEPT !.pc = "agent", !.context = r]
    /\ UNCHANGED <<tables, posts, clock, turn, turns, api, api_calls, closing_run, tally,
                   practice_profiles, wait>>

\* clinical.py:194-217 and agent.py:174-331: the generator answers, or its
\* exception is caught in get_clinical_response and an apology returned
ClinicalGenerate(out) ==
    /\ clinical.pc = "agent"
    /\ clinical' = [clinical EXCEPT
                       !.pc = "done", !.status = 200,
                       !.generator_fault = out = "fault",
                       !.reply = IF out = "fault" THEN ClinicalApology ELSE out]
    /\ UNCHANGED <<tables, posts, clock, turn, turns, api, api_calls, closing_run, tally,
                   practice_profiles, wait>>

ClinicalStep ==
    \/ \E t \in TenantIds, m \in ClinicalMessages : ClinicalStart(t, m)
    \/ ClinicalProfile
    \/ \E r \in RetrieverOutcomes : ClinicalRetrieve(r)
    \/ \E out \in ClinicalOutcomes : ClinicalGenerate(out)

\* patient turns on one conversation, and clinical requests of any tenant
NextClinical ==
    \/ /\ TurnStep({"c1"}, {"t1"}, ClosingOutputs, {"200"}, NoFaults, NoFinalizeFaults)
       /\ UNCHANGED clinical
    \/ ClinicalStep
SpecClinical == Init /\ [][NextClinical]_vars

\* C27: every step of a clinical_chat request, whatever the request, the
\* profile found and the generator outcome, leaves the conversations, the
\* logged messages, the delivery records and the practice profiles as they
\* were.
C27_ClinicalChatStateless ==
    [][clinical' # clinical => UNCHANGED <<tables, practice_profiles>>]_vars

\* a clinical request was answered after a generator fault, with a
\* conversation and its messages in the store
C27_Witness ==
    /\ clinical.pc = "done"
    /\ clinical.generator_fault
    /\ clinical.reply = ClinicalApology
    /\ conversations["c1"].exists
    /\ Len(chat_logs) >= 2

\* a clinical request of a tenant without a profile was answered 404
C27_WitnessNoProfile ==
    /\ clinical.pc = "failed"
    /\ clinical.status = 404
    /\ clinical.client_id = "t2"
    /\ ~practice_profiles["t2"].exists
    /\ conversations["c1"].exists

\* C28, first part: a step of a turn whose request tenant differs from the
\* client_id stored on the conversation leaves that conversation's stage and
\* state as they were.
C28_ForeignTurnChangesNothing ==
    [][\A p \in Procs :
          LET c == turn[p].conversation_id
          IN  (/\ InFlight(p)
               /\ turn'[p] # turn[p]
               /\ conversations[c].exists
               /\ conversations[c].client_id # turn[p].client_id)
                  => /\ conversations'[c].current_stage = conversations[c].current_stage
                     /\ conversations'[c].conversation_state
                            = conversations[c].conversation_state]_vars

\* C28, second part: every lead POSTed went to the lead_webhook_url of the
\* tenant stored on its conversation.
C28_LeadOnlyToOwner ==
    \A i \in 1..Len(posts) :
        LET owner == conversations[posts[i].payload.conversation_id].client_id
        IN  owner \in Clients /\ posts[i].url = lead_webhook_url[owner]

\* C28: a conversation belongs to the tenant that created it: a turn of
\* another tenant does not change its stage or state, and its lead is POSTed
\* only to the URL of the tenant stored on it.
C28_TenantOwnsConversation ==
    C28_ForeignTurnChangesNothing /\ []C28_LeadOnlyToOwner

(***************************************************************************)
(* Turns on a conversation that already has 8, 10 or 12 logged messages:   *)
(* four to six turns were completed on it, none of which moved the stage   *)
(* or extracted anything                                                   *)
(***************************************************************************)
PastTurns == {4, 5, 6}
PastQuestions == <<"q1", "q2", "q3", "q4", "q5", "q6">>
PastAnswers == <<"a1", "a2", "a3", "a4", "a5", "a6">>

PastLog(n) ==
    [i \in 1..(2 * n) |->
        IF i % 2 = 1
        THEN [conversation_id |-> "c1", sender_type |-> "user",
              message |-> PastQuestions[(i + 1) \div 2], agent_type |-> "patient"]
        ELSE [conversation_id |-> "c1", sender_type |-> "bot",
              message |-> PastAnswers[i \div 2], agent_type |-> "patient"]]

InitLong ==
    \E n \in PastTurns :
        /\ conversations = [c \in ConvIds |-> IF c = "c1" THEN NewConversation("t1", "patient")
                                              ELSE NoRow]
        /\ chat_logs = PastLog(n)
        /\ webhook_attempts = <<>>
        /\ webhook_successes = <<>>
        /\ webhook_failures = <<>>
        /\ posts = <<>>
        /\ clock = 1
        /\ turn = [p \in Procs |-> IdleTurn]
        /\ turns = 0
        /\ api = [op |-> "none", conversation_id |-> "", result |-> "none"]
        /\ api_calls = 0
        /\ closing_run = [c \in ConvIds |-> [active |-> FALSE, calls |-> 0]]
        /\ tally = [c \in ConvIds |-> [completed |-> IF c = "c1" THEN n ELSE 0, aborted |-> 0]]
        /\ practice_profiles = SeededProfiles
        /\ clinical = IdleClinical
        /\ wait = NotWaiting

NextLong == TurnStep({"c1"}, {"t1"}, ClosingOutputs, {"200"}, NoFaults, NoFinalizeFaults)
SpecLong == InitLong /\ [][NextLong]_vars

\* request p has read its history and has not ended
HasHistory(p) ==
    turn[p].pc \in {"log_user", "retrieve", "agent", "save", "finalize", "finalize_commit",
                    "refetch", "route", "post", "log_bot"}

\* C29: with turns served one at a time, the history a turn gives the
\* generator is the last 10 (or fewer) messages logged for the conversation
\* before the turn began, oldest first; the turn's own user message, logged
\* after the history was read, is not among them.
C29_HistoryBeforeTurn ==
    \A p \in Procs :
        HasHistory(p) =>
            LET before == SubSeq(chat_logs, 1, turn[p].logs_before)
                rows == SelectSeq(before, LAMBDA r : r.conversation_id = turn[p].conversation_id)
                n == Len(rows)
                k == IF n < 10 THEN n ELSE 10
            IN  /\ Len(turn[p].history) = k
                /\ \A i \in 1..k :
                       turn[p].history[i] =
                           [type |-> IF rows[n - k + i].sender_type = "user" THEN "human"
                                     ELSE "ai",
                            content |-> rows[n - k + i].message]

\* the generator is about to be called in a turn on a conversation with 12
\* earlier messages: its history is the last ten, and the turn's own user
\* message is the log's last row
C29_Witness ==
    /\ turn["p1"].pc = "agent"
    /\ turn["p1"].logs_before = 12
    /\ Len(turn["p1"].history) = 10
    /\ turn["p1"].history[1] = [type |-> "human", content |-> "q2"]
    /\ turn["p1"].history[10] = [type |-> "ai", content |-> "a6"]
    /\ chat_logs[13].message = turn["p1"].message

\* request p is between the trigger of chat.py:79 and the end of
\* route_via_webhook
Finalizing(p) ==
    turn[p].pc \in {"finalize", "finalize_commit", "refetch", "route", "post"}

\* C30: through any sequence of turns, finalize_conversation and
\* route_via_webhook run only in a turn that has just saved stage CLOSING:
\* the step that sets is_finalized, and every POST of a lead, finds CLOSING
\* stored on the conversation, so a conversation that never reached CLOSING
\* is never finalized and never delivered.
C30_FinalizedOnlyAfterClosing ==
    /\ [](\A p \in Procs :
             Finalizing(p) =>
                 /\ turn[p].next_stage = "CLOSING"
                 /\ turn[p].previous_stage # "CLOSING"
                 /\ conversations[turn[p].conversation_id].current_stage = "CLOSING")
    /\ [](\A p \in Procs :
             (turn[p].finalize_result # "not called" \/ turn[p].route_calls > 0)
                 => turn[p].next_stage = "CLOSING")
    /\ [][
           /\ \A c \in ConvIds :
                 (/\ conversations'[c].exists
                  /\ conversations'[c].is_finalized
                  /\ ~(conversations[c].exists /\ conversations[c].is_finalized))
                     => /\ conversations[c].exists
                        /\ conversations[c].current_stage = "CLOSING"
                        /\ \E p \in Procs : /\ turn[p].pc = "finalize_commit"
                                            /\ turn[p].conversation_id = c
           /\ (posts' # posts)
                 => \E p \in Procs :
                        /\ turn[p].pc = "post"
                        /\ posts' = Append(posts, [url |-> turn[p].url,
                                                    payload |-> turn[p].payload])
                        /\ turn[p].payload.conversation_id = turn[p].conversation_id
                        /\ conversations[turn[p].conversation_id].current_stage = "CLOSING"
         ]_vars

\* a conversation went through BOOKING_APPOINTMENT, was finalized on
\* entering CLOSING and delivered, and has since left CLOSING
C30_Witness ==
    /\ conversations["c1"].exists
    /\ conversations["c1"].is_finalized
    /\ conversations["c1"].current_stage = "BOOKING_APPOINTMENT"
    /\ Len(posts) = 1
    /\ posts[1].payload.conversation_id = "c1"
    /\ turn["p1"].pc = "done"
====
